---------------------------- MODULE Spec2Model ----------------------------
(***************************************************************************)
(* Model of CG2/obj_generator.js: the command-line generator of a frustum  *)
(* shaped building mesh in OBJ format.                                     *)
(*                                                                         *)
(* main() is modelled statement by statement: argument parsing and         *)
(* validation, then one step per loop iteration of the six loops, then the *)
(* header / fs.writeFile call, then the write callback.                    *)
(*                                                                         *)
(* JavaScript strings are sequences of one-character strings.  JavaScript  *)
(* numbers are records [nan, val]: nan says the number is NaN, val is the  *)
(* value in units of 1/FScale (fixed point, four decimals).                *)
(***************************************************************************)
EXTENDS Integers, Sequences, FiniteSets

(***************************************************************************)
(* Bounds of the explored inputs.                                          *)
(***************************************************************************)
\* the sides argument ranges over the decimal strings of 0..MaxSidesArg
MaxSidesArg == 5
\* the h, r1 and r2 arguments range over the decimal strings of -1..MaxDimArg
MaxDimArg == 1

(***************************************************************************)
(* Program constants.                                                      *)
(***************************************************************************)
\* fmt: toFixed(4)
Decimals == 4
\* validation bounds of sides
MinSides == 3
MaxSides == 36
\* default of sides
DefaultSides == 8

\* 10^Decimals: the resolution of the fixed-point numbers
FScale == 10000

(***************************************************************************)
(* JavaScript numbers.                                                     *)
(***************************************************************************)
NaN == [nan |-> TRUE, val |-> 0]

Num(x) == [nan |-> FALSE, val |-> x]

\* an integer n as a number
IntNum(n) == Num(n * FScale)

Abs(x) == IF x < 0 THEN -x ELSE x

Sgn(x) == IF x < 0 THEN -1 ELSE IF x > 0 THEN 1 ELSE 0

\* |a| * |b| / FScale rounded to nearest, split so that no intermediate
\* product leaves 32 bits
MulAbs(a, b) ==
  LET a1 == a \div 100
      a0 == a % 100
  IN  (a1 * b + ((a0 * b) \div 100) + 50) \div 100

\* x * y
Mul(x, y) ==
  IF x.nan \/ y.nan THEN NaN
  ELSE Num(Sgn(x.val) * Sgn(y.val) * MulAbs(Abs(x.val), Abs(y.val)))

\* x - y
Minus(x, y) == IF x.nan \/ y.nan THEN NaN ELSE Num(x.val - y.val)

\* x <= 0 (false when x is NaN)
LeqZero(x) == ~x.nan /\ x.val <= 0

\* isNaN(x)
isNaN(x) == x.nan

(***************************************************************************)
(* Strings.                                                                *)
(***************************************************************************)
Digits == <<"0", "1", "2", "3", "4", "5", "6", "7", "8", "9">>

IsDigit(c) == \E d \in 1..10 : Digits[d] = c

DigitVal(c) == (CHOOSE d \in 1..10 : Digits[d] = c) - 1

RECURSIVE NatToStr(_)
\* decimal digits of a natural number
NatToStr(n) ==
  IF n < 10 THEN <<Digits[n + 1]>>
  ELSE NatToStr(n \div 10) \o <<Digits[(n % 10) + 1]>>

\* String(n) of an integer n
IntToStr(n) == IF n < 0 THEN <<"-">> \o NatToStr(-n) ELSE NatToStr(n)

RECURSIVE PadLeft(_, _)
\* s padded with zeros on the left to n characters
PadLeft(s, n) == IF Len(s) >= n THEN s ELSE PadLeft(<<"0">> \o s, n)

RECURSIVE DigitRun(_)
\* the longest prefix of s made of digits
DigitRun(s) ==
  IF s # <<>> /\ IsDigit(Head(s)) THEN <<Head(s)>> \o DigitRun(Tail(s))
  ELSE <<>>

RECURSIVE DigitsVal(_, _)
\* the value of the digit string s, continuing from acc
DigitsVal(s, acc) ==
  IF s = <<>> THEN acc ELSE DigitsVal(Tail(s), acc * 10 + DigitVal(Head(s)))

\* the sign prefix of a numeric literal: <<sign, rest>>
SignSplit(s) ==
  IF s # <<>> /\ Head(s) = "-" THEN <<-1, Tail(s)>>
  ELSE IF s # <<>> /\ Head(s) = "+" THEN <<1, Tail(s)>>
  ELSE <<1, s>>

\* parseInt(s): the integer read from the longest sign-and-digits prefix of
\* s, NaN when that prefix holds no digit (the arguments explored hold no
\* white space and no 0x prefix)
parseInt(s) ==
  LET sp   == SignSplit(s)
      run  == DigitRun(sp[2])
  IN  IF run = <<>> THEN NaN ELSE IntNum(sp[1] * DigitsVal(run, 0))

\* parseFloat(s): the decimal read from the longest prefix of s of the form
\* sign digits [. digits], NaN when that prefix holds no digit (the
\* arguments explored hold no white space, exponent or Infinity, and at
\* most Decimals fraction digits)
parseFloat(s) ==
  LET sp    == SignSplit(s)
      ip    == DigitRun(sp[2])
      rest  == SubSeq(sp[2], Len(ip) + 1, Len(sp[2]))
      fp    == IF rest # <<>> /\ Head(rest) = "." THEN DigitRun(Tail(rest))
               ELSE <<>>
      fp4   == SubSeq(fp \o <<"0", "0", "0", "0">>, 1, Decimals)
  IN  IF ip = <<>> /\ fp = <<>> THEN NaN
      ELSE Num(sp[1] * (DigitsVal(ip, 0) * FScale + DigitsVal(fp4, 0)))

\* fmt(n): n.toFixed(4), the text of n with four decimals ("NaN" for NaN).
\* A value below the resolution 1/FScale prints as 0.0000, without the sign
\* JavaScript keeps for a tiny negative value.
fmt(n) ==
  IF n.nan THEN <<"N", "a", "N">>
  ELSE LET a == Abs(n.val)
       IN  (IF n.val < 0 THEN <<"-">> ELSE <<>>)
             \o NatToStr(a \div FScale) \o <<".">>
             \o PadLeft(NatToStr(a % FScale), Decimals)

(***************************************************************************)
(* V3.js: the vector utility required by the generator.  Vectors are       *)
(* arrays of three numbers.                                                *)
(***************************************************************************)
\* a JavaScript number of the model
Number == [nan : BOOLEAN, val : Int]

\* the vectors
V3 == Number \X Number \X Number

V3create(x, y, z) == <<x, y, z>>

V3subtract[a \in V3, b \in V3] ==
  <<Minus(a[1], b[1]), Minus(a[2], b[2]), Minus(a[3], b[3])>>

V3cross[a \in V3, b \in V3] ==
  <<Minus(Mul(a[2], b[3]), Mul(a[3], b[2])),
    Minus(Mul(a[3], b[1]), Mul(a[1], b[3])),
    Minus(Mul(a[1], b[2]), Mul(a[2], b[1]))>>

\* the largest r in lo..hi with r * r <= n, by bisection
ISqrtBetween[n \in Nat, lo \in Nat, hi \in Nat] ==
  IF lo >= hi THEN lo
  ELSE LET mid == (lo + hi + 1) \div 2
       IN  IF mid * mid <= n THEN ISqrtBetween[n, mid, hi]
           ELSE ISqrtBetween[n, lo, mid - 1]

\* floor of the square root of n, n < 2^31
ISqrt(n) == ISqrtBetween[n, 0, 46340]

\* a / b in units of 1/FScale for 0 <= a <= b, by long division in base 100
DivAbs[a \in Nat, b \in Nat] ==
  LET q0 == a \div b
      m0 == a % b
      q1 == (m0 * 100) \div b
      m1 == (m0 * 100) % b
      q2 == (m1 * 100 + (b \div 2)) \div b
  IN  q0 * FScale + q1 * 100 + q2

Max3(a, b, c) ==
  IF a >= b /\ a >= c THEN a ELSE IF b >= c THEN b ELSE c

\* the components of v and its magnitude, brought to a common smaller unit
\* so that the sum of the squares stays within 32 bits: <<c1, c2, c3, mag>>
Magnitude[v \in V3] ==
  LET m == Max3(Abs(v[1].val), Abs(v[2].val), Abs(v[3].val))
      k == (m \div 20000) + 1
      c == <<Abs(v[1].val) \div k, Abs(v[2].val) \div k, Abs(v[3].val) \div k>>
  IN  c \o <<ISqrt(c[1] * c[1] + c[2] * c[2] + c[3] * c[3])>>

\* v divided by its Euclidean magnitude; every component is NaN when a
\* component is NaN or the magnitude is zero (0/0)
V3normalize[v \in V3] ==
  IF v[1].nan \/ v[2].nan \/ v[3].nan THEN <<NaN, NaN, NaN>>
  ELSE IF Magnitude[v][4] = 0 THEN <<NaN, NaN, NaN>>
  ELSE <<Num(Sgn(v[1].val) * DivAbs[Magnitude[v][1], Magnitude[v][4]]),
         Num(Sgn(v[2].val) * DivAbs[Magnitude[v][2], Magnitude[v][4]]),
         Num(Sgn(v[3].val) * DivAbs[Magnitude[v][3], Magnitude[v][4]])>>

(***************************************************************************)
(* Math.cos and Math.sin at the angles (i / sides) * 2 * Math.PI, for      *)
(* sides in MinSides..MaxSides and i in 0..sides-1, in units of 1/FScale.  *)
(* Row sides - 2 holds the values for that number of sides.                *)
(***************************************************************************)
CosTable ==
  <<
    <<10000, -5000, -5000>>,
    <<10000, 0, -10000, 0>>,
    <<10000, 3090, -8090, -8090, 3090>>,
    <<10000, 5000, -5000, -10000, -5000, 5000>>,
    <<10000, 6235, -2225, -9010, -9010, -2225, 6235>>,
    <<10000, 7071, 0, -7071, -10000, -7071, 0, 7071>>,
    <<10000, 7660, 1736, -5000, -9397, -9397, -5000, 1736, 7660>>,
    <<10000, 8090, 3090, -3090, -8090, -10000, -8090, -3090, 3090, 8090>>,
    <<10000, 8413, 4154, -1423, -6549, -9595, -9595, -6549, -1423, 4154, 8413>>,
    <<10000, 8660, 5000, 0, -5000, -8660, -10000, -8660, -5000, 0, 5000, 8660>>,
    <<10000, 8855, 5681, 1205, -3546, -7485, -9709, -9709, -7485, -3546, 1205, 5681, 8855>>,
    <<10000, 9010, 6235, 2225, -2225, -6235, -9010, -10000, -9010, -6235, -2225, 2225, 6235, 9010>>,
    <<10000, 9135, 6691, 3090, -1045, -5000, -8090, -9781, -9781, -8090, -5000, -1045, 3090, 6691, 9135>>,
    <<10000, 9239, 7071, 3827, 0, -3827, -7071, -9239, -10000, -9239, -7071, -3827, 0, 3827, 7071, 9239>>,
    <<10000, 9325, 7390, 4457, 923, -2737, -6026, -8502, -9830, -9830, -8502, -6026, -2737, 923, 4457, 7390, 9325>>,
    <<10000, 9397, 7660, 5000, 1736, -1736, -5000, -7660, -9397, -10000, -9397, -7660, -5000, -1736, 1736, 5000, 7660, 9397>>,
    <<10000, 9458, 7891, 5469, 2455, -826, -4017, -6773, -8795, -9864, -9864, -8795, -6773, -4017, -826, 2455, 5469, 7891, 9458>>,
    <<10000, 9511, 8090, 5878, 3090, 0, -3090, -5878, -8090, -9511, -10000, -9511, -8090, -5878, -3090, 0, 3090, 5878, 8090, 9511>>,
    <<10000, 9556, 8262, 6235, 3653, 747, -2225, -5000, -7331, -9010, -9888, -9888, -9010, -7331, -5000, -2225, 747, 3653, 6235, 8262, 9556>>,
    <<10000, 9595, 8413, 6549, 4154, 1423, -1423, -4154, -6549, -8413, -9595, -10000, -9595, -8413, -6549, -4154, -1423, 1423, 4154, 6549, 8413, 9595>>,
    <<10000, 9629, 8544, 6826, 4601, 2035, -682, -3349, -5767, -7757, -9172, -9907, -9907, -9172, -7757, -5767, -3349, -682, 2035, 4601, 6826, 8544, 9629>>,
    <<10000, 9659, 8660, 7071, 5000, 2588, 0, -2588, -5000, -7071, -8660, -9659, -10000, -9659, -8660, -7071, -5000, -2588, 0, 2588, 5000, 7071, 8660, 9659>>,
    <<10000, 9686, 8763, 7290, 5358, 3090, 628, -1874, -4258, -6374, -8090, -9298, -9921, -9921, -9298, -8090, -6374, -4258, -1874, 628, 3090, 5358, 7290, 8763, 9686>>,
    <<10000, 9709, 8855, 7485, 5681, 3546, 1205, -1205, -3546, -5681, -7485, -8855, -9709, -10000, -9709, -8855, -7485, -5681, -3546, -1205, 1205, 3546, 5681, 7485, 8855, 9709>>,
    <<10000, 9730, 8936, 7660, 5972, 3961, 1736, -581, -2868, -5000, -6862, -8355, -9397, -9932, -9932, -9397, -8355, -6862, -5000, -2868, -581, 1736, 3961, 5972, 7660, 8936, 9730>>,
    <<10000, 9749, 9010, 7818, 6235, 4339, 2225, 0, -2225, -4339, -6235, -7818, -9010, -9749, -10000, -9749, -9010, -7818, -6235, -4339, -2225, 0, 2225, 4339, 6235, 7818, 9010, 9749>>,
    <<10000, 9766, 9076, 7961, 6474, 4684, 2675, 541, -1618, -3701, -5612, -7260, -8569, -9477, -9941, -9941, -9477, -8569, -7260, -5612, -3701, -1618, 541, 2675, 4684, 6474, 7961, 9076, 9766>>,
    <<10000, 9781, 9135, 8090, 6691, 5000, 3090, 1045, -1045, -3090, -5000, -6691, -8090, -9135, -9781, -10000, -9781, -9135, -8090, -6691, -5000, -3090, -1045, 1045, 3090, 5000, 6691, 8090, 9135, 9781>>,
    <<10000, 9795, 9190, 8208, 6890, 5290, 3473, 1514, -506, -2507, -4404, -6121, -7588, -8743, -9541, -9949, -9949, -9541, -8743, -7588, -6121, -4404, -2507, -506, 1514, 3473, 5290, 6890, 8208, 9190, 9795>>,
    <<10000, 9808, 9239, 8315, 7071, 5556, 3827, 1951, 0, -1951, -3827, -5556, -7071, -8315, -9239, -9808, -10000, -9808, -9239, -8315, -7071, -5556, -3827, -1951, 0, 1951, 3827, 5556, 7071, 8315, 9239, 9808>>,
    <<10000, 9819, 9284, 8413, 7237, 5801, 4154, 2358, 476, -1423, -3271, -5000, -6549, -7861, -8888, -9595, -9955, -9955, -9595, -8888, -7861, -6549, -5000, -3271, -1423, 476, 2358, 4154, 5801, 7237, 8413, 9284, 9819>>,
    <<10000, 9830, 9325, 8502, 7390, 6026, 4457, 2737, 923, -923, -2737, -4457, -6026, -7390, -8502, -9325, -9830, -10000, -9830, -9325, -8502, -7390, -6026, -4457, -2737, -923, 923, 2737, 4457, 6026, 7390, 8502, 9325, 9830>>,
    <<10000, 9839, 9362, 8584, 7531, 6235, 4739, 3090, 1342, -449, -2225, -3930, -5509, -6911, -8090, -9010, -9640, -9960, -9960, -9640, -9010, -8090, -6911, -5509, -3930, -2225, -449, 1342, 3090, 4739, 6235, 7531, 8584, 9362, 9839>>,
    <<10000, 9848, 9397, 8660, 7660, 6428, 5000, 3420, 1736, 0, -1736, -3420, -5000, -6428, -7660, -8660, -9397, -9848, -10000, -9848, -9397, -8660, -7660, -6428, -5000, -3420, -1736, 0, 1736, 3420, 5000, 6428, 7660, 8660, 9397, 9848>>
  >>

SinTable ==
  <<
    <<0, 8660, -8660>>,
    <<0, 10000, 0, -10000>>,
    <<0, 9511, 5878, -5878, -9511>>,
    <<0, 8660, 8660, 0, -8660, -8660>>,
    <<0, 7818, 9749, 4339, -4339, -9749, -7818>>,
    <<0, 7071, 10000, 7071, 0, -7071, -10000, -7071>>,
    <<0, 6428, 9848, 8660, 3420, -3420, -8660, -9848, -6428>>,
    <<0, 5878, 9511, 9511, 5878, 0, -5878, -9511, -9511, -5878>>,
    <<0, 5406, 9096, 9898, 7557, 2817, -2817, -7557, -9898, -9096, -5406>>,
    <<0, 5000, 8660, 10000, 8660, 5000, 0, -5000, -8660, -10000, -8660, -5000>>,
    <<0, 4647, 8230, 9927, 9350, 6631, 2393, -2393, -6631, -9350, -9927, -8230, -4647>>,
    <<0, 4339, 7818, 9749, 9749, 7818, 4339, 0, -4339, -7818, -9749, -9749, -7818, -4339>>,
    <<0, 4067, 7431, 9511, 9945, 8660, 5878, 2079, -2079, -5878, -8660, -9945, -9511, -7431, -4067>>,
    <<0, 3827, 7071, 9239, 10000, 9239, 7071, 3827, 0, -3827, -7071, -9239, -10000, -9239, -7071, -3827>>,
    <<0, 3612, 6737, 8952, 9957, 9618, 7980, 5264, 1837, -1837, -5264, -7980, -9618, -9957, -8952, -6737, -3612>>,
    <<0, 3420, 6428, 8660, 9848, 9848, 8660, 6428, 3420, 0, -3420, -6428, -8660, -9848, -9848, -8660, -6428, -3420>>,
    <<0, 3247, 6142, 8372, 9694, 9966, 9158, 7357, 4759, 1646, -1646, -4759, -7357, -9158, -9966, -9694, -8372, -6142, -3247>>,
    <<0, 3090, 5878, 8090, 9511, 10000, 9511, 8090, 5878, 3090, 0, -3090, -5878, -8090, -9511, -10000, -9511, -8090, -5878, -3090>>,
    <<0, 2948, 5633, 7818, 9309, 9972, 9749, 8660, 6802, 4339, 1490, -1490, -4339, -6802, -8660, -9749, -9972, -9309, -7818, -5633, -2948>>,
    <<0, 2817, 5406, 7557, 9096, 9898, 9898, 9096, 7557, 5406, 2817, 0, -2817, -5406, -7557, -9096, -9898, -9898, -9096, -7557, -5406, -2817>>,
    <<0, 2698, 5196, 7308, 8879, 9791, 9977, 9423, 8170, 6311, 3984, 1362, -1362, -3984, -6311, -8170, -9423, -9977, -9791, -8879, -7308, -5196, -2698>>,
    <<0, 2588, 5000, 7071, 8660, 9659, 10000, 9659, 8660, 7071, 5000, 2588, 0, -2588, -5000, -7071, -8660, -9659, -10000, -9659, -8660, -7071, -5000, -2588>>,
    <<0, 2487, 4818, 6845, 8443, 9511, 9980, 9823, 9048, 7705, 5878, 3681, 1253, -1253, -3681, -5878, -7705, -9048, -9823, -9980, -9511, -8443, -6845, -4818, -2487>>,
    <<0, 2393, 4647, 6631, 8230, 9350, 9927, 9927, 9350, 8230, 6631, 4647, 2393, 0, -2393, -4647, -6631, -8230, -9350, -9927, -9927, -9350, -8230, -6631, -4647, -2393>>,
    <<0, 2306, 4488, 6428, 8021, 9182, 9848, 9983, 9580, 8660, 7274, 5495, 3420, 1161, -1161, -3420, -5495, -7274, -8660, -9580, -9983, -9848, -9182, -8021, -6428, -4488, -2306>>,
    <<0, 2225, 4339, 6235, 7818, 9010, 9749, 10000, 9749, 9010, 7818, 6235, 4339, 2225, 0, -2225, -4339, -6235, -7818, -9010, -9749, -10000, -9749, -9010, -7818, -6235, -4339, -2225>>,
    <<0, 2150, 4199, 6052, 7622, 8835, 9635, 9985, 9868, 9290, 8277, 6877, 5156, 3193, 1081, -1081, -3193, -5156, -6877, -8277, -9290, -9868, -9985, -9635, -8835, -7622, -6052, -4199, -2150>>,
    <<0, 2079, 4067, 5878, 7431, 8660, 9511, 9945, 9945, 9511, 8660, 7431, 5878, 4067, 2079, 0, -2079, -4067, -5878, -7431, -8660, -9511, -9945, -9945, -9511, -8660, -7431, -5878, -4067, -2079>>,
    <<0, 2013, 3944, 5713, 7248, 8486, 9378, 9885, 9987, 9681, 8978, 7908, 6514, 4853, 2994, 1012, -1012, -2994, -4853, -6514, -7908, -8978, -9681, -9987, -9885, -9378, -8486, -7248, -5713, -3944, -2013>>,
    <<0, 1951, 3827, 5556, 7071, 8315, 9239, 9808, 10000, 9808, 9239, 8315, 7071, 5556, 3827, 1951, 0, -1951, -3827, -5556, -7071, -8315, -9239, -9808, -10000, -9808, -9239, -8315, -7071, -5556, -3827, -1951>>,
    <<0, 1893, 3717, 5406, 6901, 8146, 9096, 9718, 9989, 9898, 9450, 8660, 7557, 6182, 4582, 2817, 951, -951, -2817, -4582, -6182, -7557, -8660, -9450, -9898, -9989, -9718, -9096, -8146, -6901, -5406, -3717, -1893>>,
    <<0, 1837, 3612, 5264, 6737, 7980, 8952, 9618, 9957, 9957, 9618, 8952, 7980, 6737, 5264, 3612, 1837, 0, -1837, -3612, -5264, -6737, -7980, -8952, -9618, -9957, -9957, -9618, -8952, -7980, -6737, -5264, -3612, -1837>>,
    <<0, 1786, 3514, 5129, 6579, 7818, 8806, 9511, 9909, 9990, 9749, 9195, 8346, 7228, 5878, 4339, 2660, 896, -896, -2660, -4339, -5878, -7228, -8346, -9195, -9749, -9990, -9909, -9511, -8806, -7818, -6579, -5129, -3514, -1786>>,
    <<0, 1736, 3420, 5000, 6428, 7660, 8660, 9397, 9848, 10000, 9848, 9397, 8660, 7660, 6428, 5000, 3420, 1736, 0, -1736, -3420, -5000, -6428, -7660, -8660, -9397, -9848, -10000, -9848, -9397, -8660, -7660, -6428, -5000, -3420, -1736>>
  >>

\* Math.cos((i / sides) * 2 * Math.PI)
Cos(i, S) == Num(CosTable[S - 2][i + 1])

\* Math.sin((i / sides) * 2 * Math.PI)
Sin(i, S) == Num(SinTable[S - 2][i + 1])

(***************************************************************************)
(* The lines of the OBJ text.                                              *)
(***************************************************************************)
\* `v ${fmt(x)} ${fmt(y)} ${fmt(z)}`
VLine(x, y, z) == <<"v", fmt(x), fmt(y), fmt(z)>>

\* `vn ${fmt(x)} ${fmt(y)} ${fmt(z)}`
VnLine(x, y, z) == <<"vn", fmt(x), fmt(y), fmt(z)>>

\* `f ${a}//${n} ${b}//${n} ${c}//${n}`
FLine(a, b, c, n) == <<"f", <<a, n>>, <<b, n>>, <<c, n>>>>

\* the three vertex indices of a face line
FaceVerts(face) == <<face[2][1], face[3][1], face[4][1]>>

\* the three normal indices of a face line
FaceNormals(face) == <<face[2][2], face[3][2], face[4][2]>>

(***************************************************************************)
(* The command line.                                                       *)
(***************************************************************************)
SidesArgs ==
  {IntToStr(n) : n \in 0..MaxSidesArg}
    \cup {<<>>, <<"a">>, <<"3", ".", "5">>, <<"3", "6">>, <<"3", "7">>}

DimArgs ==
  {IntToStr(n) : n \in -1..MaxDimArg} \cup {<<"a">>, <<"0", ".", "8">>}

\* process.argv.slice(2): up to four arguments
ArgVectors ==
  {<<>>}
    \cup {<<s>> : s \in SidesArgs}
    \cup {<<s, a>> : s \in SidesArgs, a \in DimArgs}
    \cup {<<s, a, b>> : s \in SidesArgs, a \in DimArgs, b \in DimArgs}
    \cup {<<s, a, b, c>> :
            s \in SidesArgs, a \in DimArgs, b \in DimArgs, c \in DimArgs}

\* args[k] ? ... : a string is truthy when it is present and not empty
Truthy(a, k) == k + 1 <= Len(a) /\ a[k + 1] # <<>>

VARIABLES
  args,            \* process.argv.slice(2)
  pc,              \* position in main
  i,               \* the counter of the running loop
  sides, h, r1, r2,
  v, vn, f,
  bottomVertices, topVertices,
  vReorganized,
  centerBotIndex, centerTopIndex,
  writes,          \* the calls of fs.writeFile: [file, data]
  disk,            \* the files written
  stderr, stdout   \* the console.error and console.log lines

vars ==
  <<args, pc, i, sides, h, r1, r2, v, vn, f, bottomVertices, topVertices,
    vReorganized, centerBotIndex, centerTopIndex, writes, disk, stderr,
    stdout>>

params == <<args, sides, h, r1, r2>>

arrays == <<v, vn, f, bottomVertices, topVertices, vReorganized>>

centers == <<centerBotIndex, centerTopIndex>>

io == <<writes, disk, stderr, stdout>>

\* sides as an integer (after validation sides is a whole number)
S == sides.val \div FScale

Init ==
  /\ args \in ArgVectors
  /\ pc = "parse"
  /\ i = 0
  /\ sides = NaN /\ h = NaN /\ r1 = NaN /\ r2 = NaN
  /\ v = <<>> /\ vn = <<>> /\ f = <<>>
  /\ bottomVertices = <<>> /\ topVertices = <<>>
  /\ vReorganized = <<>>
  /\ centerBotIndex = 0 /\ centerTopIndex = 0
  /\ writes = <<>> /\ disk = {}
  /\ stderr = <<>> /\ stdout = <<>>

\* lines 14-20: the parameters, with their defaults
sidesOf(a) == IF Truthy(a, 0) THEN parseInt(a[1]) ELSE IntNum(DefaultSides)

hOf(a) == IF Truthy(a, 1) THEN parseFloat(a[2]) ELSE parseFloat(<<"6", ".", "0">>)

r1Of(a) == IF Truthy(a, 2) THEN parseFloat(a[3]) ELSE parseFloat(<<"1", ".", "0">>)

r2Of(a) == IF Truthy(a, 3) THEN parseFloat(a[4]) ELSE parseFloat(<<"0", ".", "8">>)

Parse ==
  /\ pc = "parse"
  /\ sides' = sidesOf(args)
  /\ h' = hOf(args)
  /\ r1' = r1Of(args)
  /\ r2' = r2Of(args)
  /\ pc' = "validate"
  /\ UNCHANGED <<args, i, arrays, centers, io>>

\* line 23: the condition of the validation
Invalid(s, hh, ra, rb) ==
  \/ (~s.nan /\ s.val < MinSides * FScale)
  \/ (~s.nan /\ s.val > MaxSides * FScale)
  \/ isNaN(s)
  \/ LeqZero(hh)
  \/ LeqZero(ra)
  \/ LeqZero(rb)

ErrorMessage == "Error: sides debe estar entre 3-36 y h, r1, r2 deben ser > 0"

\* lines 23-28: report and return
ValidateReject ==
  /\ pc = "validate"
  /\ Invalid(sides, h, r1, r2)
  /\ stderr' = Append(stderr, <<ErrorMessage>>)
  /\ pc' = "exit"
  /\ UNCHANGED <<params, i, arrays, centers, writes, disk, stdout>>

\* lines 23, 31-37: go on with empty arrays
ValidateAccept ==
  /\ pc = "validate"
  /\ ~Invalid(sides, h, r1, r2)
  /\ v' = <<>> /\ vn' = <<>> /\ f' = <<>>
  /\ bottomVertices' = <<>> /\ topVertices' = <<>>
  /\ i' = 0
  /\ pc' = "vertices"
  /\ UNCHANGED <<params, vReorganized, centers, io>>

\* lines 45-47: the bottom ring vertex at ring position k
BottomVertex(k, n, ra) == V3create(Mul(ra, Cos(k, n)), Num(0), Mul(ra, Sin(k, n)))

\* lines 51-53: the top ring vertex at ring position k
TopVertex(k, n, rb, hh) == V3create(Mul(rb, Cos(k, n)), hh, Mul(rb, Sin(k, n)))

\* lines 39-55: one iteration of the vertex loop
GenVertex ==
  /\ pc = "vertices"
  /\ i < S
  /\ LET bot == BottomVertex(i, S, r1)
         top == TopVertex(i, S, r2, h)
     IN  /\ bottomVertices' = Append(bottomVertices, bot)
         /\ topVertices' = Append(topVertices, top)
         /\ v' = v \o <<VLine(bot[1], Num(0), bot[3]), VLine(top[1], h, top[3])>>
  /\ IF i + 1 < S
       THEN /\ i' = i + 1
            /\ pc' = pc
       ELSE /\ i' = 0
            /\ pc' = "reorgBottom"
  /\ UNCHANGED <<params, vn, f, vReorganized, centers, io>>

\* line 60: v[i * 2], the bottom vertex line of ring position k
BottomOf(lines, k) == lines[(k * 2) + 1]

\* mutant of TopOf: reads v[i * 2], the bottom line, again
TopOfReadsBottom(lines, k) == lines[(k * 2) + 1]

\* line 63: v[i * 2 + 1], the top vertex line of ring position k
TopOf(lines, k) == lines[(k * 2 + 1) + 1]

\* lines 58-61: one iteration of the first regrouping loop
ReorgBottom ==
  /\ pc = "reorgBottom"
  /\ i < S
  /\ vReorganized' = Append(vReorganized, BottomOf(v, i))
  /\ IF i + 1 < S
       THEN /\ i' = i + 1
            /\ pc' = pc
       ELSE /\ i' = 0
            /\ pc' = "reorgTop"
  /\ UNCHANGED <<params, v, vn, f, bottomVertices, topVertices, centers, io>>

\* lines 62-64: one iteration of the second regrouping loop
ReorgTop ==
  /\ pc = "reorgTop"
  /\ i < S
  /\ vReorganized' = Append(vReorganized, TopOf(v, i))
  /\ IF i + 1 < S
       THEN /\ i' = i + 1
            /\ pc' = pc
       ELSE /\ i' = 0
            /\ pc' = "centers"
  /\ UNCHANGED <<params, v, vn, f, bottomVertices, topVertices, centers, io>>

\* lines 67-71: the two center vertices and their indices
Centers ==
  /\ pc = "centers"
  /\ centerBotIndex' = 2 * S + 1
  /\ centerTopIndex' = 2 * S + 2
  /\ vReorganized' =
       vReorganized \o <<VLine(Num(0), Num(0), Num(0)), VLine(Num(0), h, Num(0))>>
  /\ i' = 0
  /\ pc' = "sideNormals"
  /\ UNCHANGED <<params, v, vn, f, bottomVertices, topVertices, io>>

\* lines 82-86: the normal of the side through Bi, Ti and Bj
SideNormal(Bi, Ti, Bj) ==
  LET A == V3subtract[Ti, Bi]
      B == V3subtract[Bj, Bi]
  IN  V3normalize[V3cross[A, B]]

\* lines 74-88: one iteration of the side normal loop
GenSideNormal ==
  /\ pc = "sideNormals"
  /\ i < S
  /\ LET j == (i + 1) % S
         n == SideNormal(bottomVertices[i + 1], topVertices[i + 1],
                         bottomVertices[j + 1])
     IN  vn' = Append(vn, VnLine(n[1], n[2], n[3]))
  /\ IF i + 1 < S
       THEN /\ i' = i + 1
            /\ pc' = pc
       ELSE /\ i' = 0
            /\ pc' = "sideFaces"
  /\ UNCHANGED <<params, v, f, bottomVertices, topVertices, vReorganized,
                 centers, io>>

\* mutant of SideFaces: j = i + 1 without the modulo
SideFacesNoWrap(k, n) ==
  LET j      == k + 1
      viB    == 1 + k
      vjB    == 1 + j
      viT    == n + 1 + k
      vjT    == n + 1 + j
      vn_idx == 1 + k
  IN  <<FLine(viB, viT, vjB, vn_idx), FLine(vjB, viT, vjT, vn_idx)>>

\* lines 92-106: the two triangles of side k of n
SideFaces(k, n) ==
  LET j      == (k + 1) % n
      viB    == 1 + k
      vjB    == 1 + j
      viT    == n + 1 + k
      vjT    == n + 1 + j
      vn_idx == 1 + k
  IN  <<FLine(viB, viT, vjB, vn_idx), FLine(vjB, viT, vjT, vn_idx)>>

\* lines 91-107: one iteration of the side face loop
GenSideFaces ==
  /\ pc = "sideFaces"
  /\ i < S
  /\ f' = f \o SideFaces(i, S)
  /\ IF i + 1 < S
       THEN /\ i' = i + 1
            /\ pc' = pc
       ELSE /\ i' = 0
            /\ pc' = "roof"
  /\ UNCHANGED <<params, v, vn, bottomVertices, topVertices, vReorganized,
                 centers, io>>

\* mutant of RoofFace: every roof triangle references one shared roof normal
RoofFaceSharedNormal(k, n, center, vn_idx) ==
  LET current == n + 1 + k
      next    == n + 1 + ((k + 1) % n)
  IN  FLine(center, next, current, n + 1)

\* mutant of RoofFace: current and next exchanged, the winding reversed
RoofFaceFlipped(k, n, center, vn_idx) ==
  LET current == n + 1 + k
      next    == n + 1 + ((k + 1) % n)
  IN  FLine(center, current, next, vn_idx)

\* lines 111-118: the roof triangle of ring position k
RoofFace(k, n, center, vn_idx) ==
  LET current == n + 1 + k
      next    == n + 1 + ((k + 1) % n)
  IN  FLine(center, next, current, vn_idx)

\* mutant of RoofNormal: the floor normal pasted into the roof loop
RoofNormalDown == VnLine(IntNum(0), IntNum(-1), IntNum(0))

\* line 114: the roof normal
RoofNormal == VnLine(IntNum(0), IntNum(1), IntNum(0))

\* lines 110-120: one iteration of the roof loop
GenRoof ==
  /\ pc = "roof"
  /\ i < S
  /\ vn' = Append(vn, RoofNormal)
  /\ f' = Append(f, RoofFace(i, S, centerTopIndex, Len(vn')))
  /\ IF i + 1 < S
       THEN /\ i' = i + 1
            /\ pc' = pc
       ELSE /\ i' = 0
            /\ pc' = "floor"
  /\ UNCHANGED <<params, v, bottomVertices, topVertices, vReorganized,
                 centers, io>>

\* mutant of FloorFace: 0-based vertex indices
FloorFaceZeroBased(k, n, center, vn_idx) ==
  LET current == k
      next    == (k + 1) % n
  IN  FLine(center, current, next, vn_idx)

\* lines 124-131: the floor triangle of ring position k
FloorFace(k, n, center, vn_idx) ==
  LET current == 1 + k
      next    == 1 + ((k + 1) % n)
  IN  FLine(center, current, next, vn_idx)

\* line 127: the floor normal
FloorNormal == VnLine(IntNum(0), IntNum(-1), IntNum(0))

\* lines 123-133: one iteration of the floor loop
GenFloor ==
  /\ pc = "floor"
  /\ i < S
  /\ vn' = Append(vn, FloorNormal)
  /\ f' = Append(f, FloorFace(i, S, centerBotIndex, Len(vn')))
  /\ IF i + 1 < S
       THEN /\ i' = i + 1
            /\ pc' = pc
       ELSE /\ i' = 0
            /\ pc' = "write"
  /\ UNCHANGED <<params, v, bottomVertices, topVertices, vReorganized,
                 centers, io>>

\* mutant of Header: counts the interleaved list v, which lacks the centers
HeaderCountsV ==
  [sides |-> sides, h |-> h, r1 |-> r1, r2 |-> r2,
   vertices |-> Len(v), normals |-> Len(vn), faces |-> Len(f)]

\* lines 136-141: the header
Header ==
  [sides |-> sides, h |-> h, r1 |-> r1, r2 |-> r2,
   vertices |-> Len(vReorganized), normals |-> Len(vn), faces |-> Len(f)]

\* line 143: [header, ...vReorganized, ...vn, ...f].join("\n"), by lines
Contenido == <<Header>> \o vReorganized \o vn \o f

\* line 144: the file name
NombreArchivo == <<"building", sides, h, r1, r2, ".obj">>

\* lines 136-146: build the text and call fs.writeFile; main returns
WriteFile ==
  /\ pc = "write"
  /\ writes' = Append(writes, [file |-> NombreArchivo, data |-> Contenido])
  /\ pc' = "pending"
  /\ UNCHANGED <<params, i, arrays, centers, disk, stderr, stdout>>

\* console.error("Error al escribir el archivo:", err)
WriteError == <<"Error al escribir el archivo:", "err">>

\* mutant of CallbackError: the failure is swallowed
CallbackErrorSilent ==
  /\ pc = "pending"
  /\ pc' = "done"
  /\ UNCHANGED <<params, i, arrays, centers, io>>

\* lines 146-148: the callback of a failed write
CallbackError ==
  /\ pc = "pending"
  /\ stderr' = Append(stderr, WriteError)
  /\ pc' = "done"
  /\ UNCHANGED <<params, i, arrays, centers, writes, disk, stdout>>

\* lines 146-151: the callback of a successful write
CallbackSuccess ==
  /\ pc = "pending"
  /\ disk' = disk \cup {writes[Len(writes)].file}
  /\ stdout' = Append(stdout, <<"Wrote", writes[Len(writes)].file>>)
  /\ pc' = "done"
  /\ UNCHANGED <<params, i, arrays, centers, writes, stderr>>

Next ==
  \/ Parse
  \/ ValidateReject
  \/ ValidateAccept
  \/ GenVertex
  \/ ReorgBottom
  \/ ReorgTop
  \/ Centers
  \/ GenSideNormal
  \/ GenSideFaces
  \/ GenRoof
  \/ GenFloor
  \/ WriteFile
  \/ CallbackError
  \/ CallbackSuccess

Spec == Init /\ [][Next]_vars

\* the runs with at most the sides and h arguments given
ShortInit == Init /\ Len(args) <= 2

\* main runs to its end and the event loop then runs the write callback: no
\* step that is ready waits for ever
FairSpec == ShortInit /\ [][Next]_vars /\ WF_vars(Next)

(***************************************************************************)
(* Properties.                                                             *)
(***************************************************************************)
\* main has built the whole mesh
Built == pc \in {"write", "pending", "done"}

\* the validation let the parameters through
Accepted == pc \notin {"parse", "validate", "exit"}

\* C1: once the mesh is built the vertex list has 2*sides+2 entries, the
\* normal list 3*sides and the face list 4*sides, and the header of the
\* written text reports these three counts.
C1_Counts ==
  Built =>
    /\ Len(vReorganized) = 2 * S + 2
    /\ Len(vn) = 3 * S
    /\ Len(f) = 4 * S
    /\ \A w \in 1..Len(writes) :
         LET hd == writes[w].data[1]
         IN  /\ hd.vertices = 2 * S + 2
             /\ hd.normals = 3 * S
             /\ hd.faces = 4 * S

C1_Witness ==
  /\ pc = "done"
  /\ S = 5
  /\ ~h.nan /\ ~r1.nan /\ ~r2.nan
  /\ Len(writes) = 1
  /\ writes[1].data[1].faces = 20

\* C2: once the mesh is built every face has its three vertex indices in
\* 1..2*sides+2 and its three normal indices in 1..number of normals, the
\* wrap-around faces of ring position sides-1 included.
C2_IndicesInRange ==
  Built =>
    \A k \in 1..Len(f) :
      \A c \in 1..3 :
        /\ FaceVerts(f[k])[c] \in 1..(2 * S + 2)
        /\ FaceVerts(f[k])[c] \in 1..Len(vReorganized)
        /\ FaceNormals(f[k])[c] \in 1..Len(vn)

\* the faces of ring position sides-1 connect back to ring position 0
C2_Witness ==
  /\ Built
  /\ S = 4
  /\ FaceVerts(f[2 * S - 1]) = <<S, 2 * S, 1>>
  /\ FaceVerts(f[2 * S]) = <<1, 2 * S, S + 1>>
  /\ FaceVerts(f[3 * S]) = <<2 * S + 2, S + 1, 2 * S>>
  /\ FaceVerts(f[4 * S]) = <<2 * S + 1, S, 1>>

\* the line of a ring vertex
VertexLine(p) == VLine(p[1], p[2], p[3])

\* the vertex list generated directly in its final order
DirectVertices ==
  [k \in 1..(2 * S + 2) |->
     IF k <= S THEN VertexLine(BottomVertex(k - 1, S, r1))
     ELSE IF k <= 2 * S THEN VertexLine(TopVertex(k - S - 1, S, r2, h))
     ELSE IF k = 2 * S + 1 THEN VLine(Num(0), Num(0), Num(0))
     ELSE VLine(Num(0), h, Num(0))]

\* C5: the vertex list built by interleaved generation and regrouping is
\* the list of direct generation: bottom ring vertex k-1 at position k,
\* top ring vertex k-sides-1 at position k in sides+1..2*sides, then the
\* bottom center (0,0,0) and the top center (0,h,0).
C5_RegroupIsDirect == Built => vReorganized = DirectVertices

\* a run whose rings differ and whose vertices are pairwise distinct
C5_Witness ==
  /\ pc = "done"
  /\ S = 5
  /\ ~h.nan /\ ~r1.nan /\ ~r2.nan
  /\ r1 # r2
  /\ \A a, b \in 1..Len(vReorganized) : a # b => vReorganized[a] # vReorganized[b]

\* the normal index of a face (its first corner's)
NormalOf(face) == FaceNormals(face)[1]

\* C6 as stated: one normal per face, and no two faces share a normal index.
C6_NoSharedNormal ==
  Built =>
    /\ Len(vn) = Len(f)
    /\ \A a, b \in 1..Len(f) : a # b => NormalOf(f[a]) # NormalOf(f[b])

\* C6 amended: the normal list holds one entry per side (shared by the two
\* triangles of that side) and one per roof and per floor triangle; two
\* distinct faces reference the same normal index exactly when they are the
\* two triangles of one side; every normal is referenced by a face.
C6_SharedOnlyWithinSide ==
  Built =>
    /\ Len(vn) = 3 * S
    /\ Len(f) = 4 * S
    /\ \A k \in 1..Len(f) :
         FaceNormals(f[k]) = <<NormalOf(f[k]), NormalOf(f[k]), NormalOf(f[k])>>
    /\ \A a, b \in 1..Len(f) :
         a < b =>
           ((NormalOf(f[a]) = NormalOf(f[b]))
              <=> (b = a + 1 /\ a % 2 = 1 /\ b <= 2 * S))
    /\ \A n \in 1..Len(vn) : \E k \in 1..Len(f) : NormalOf(f[k]) = n

C6_Witness ==
  /\ Built
  /\ S = 3
  /\ NormalOf(f[1]) = NormalOf(f[2])
  /\ NormalOf(f[7]) # NormalOf(f[8])
  /\ vn[7] = vn[8]

\* C7: for every ring position k with j = (k+1) mod sides the faces at
\* 0-based positions 2k and 2k+1 are (bottom[k], top[k], bottom[j]) and
\* (bottom[j], top[k], top[j]) in that order, all six normal indices are
\* k+1, and normal k+1 is the one computed from bottom[k], top[k], bottom[j].
C7_SideFaces ==
  Built =>
    \A k \in 0..(S - 1) :
      LET j == (k + 1) % S
          n == V3normalize[V3cross[
                 V3subtract[TopVertex(k, S, r2, h), BottomVertex(k, S, r1)],
                 V3subtract[BottomVertex(j, S, r1), BottomVertex(k, S, r1)]]]
      IN  /\ f[2 * k + 1] =
               <<"f", <<1 + k, k + 1>>, <<S + 1 + k, k + 1>>, <<1 + j, k + 1>>>>
          /\ f[2 * k + 2] =
               <<"f", <<1 + j, k + 1>>, <<S + 1 + k, k + 1>>,
                 <<S + 1 + j, k + 1>>>>
          /\ vn[k + 1] = <<"vn", fmt(n[1]), fmt(n[2]), fmt(n[3])>>

\* a run whose side normals are numbers and pairwise distinct
C7_Witness ==
  /\ pc = "done"
  /\ S = 4
  /\ ~h.nan /\ ~r1.nan /\ ~r2.nan
  /\ \A a, b \in 1..S : a # b => vn[a] # vn[b]
  /\ f[2 * S] = <<"f", <<1, S>>, <<2 * S, S>>, <<S + 1, S>>>>

Zero4 == <<"0", ".", "0", "0", "0", "0">>

One4 == <<"1", ".", "0", "0", "0", "0">>

MinusOne4 == <<"-", "1", ".", "0", "0", "0", "0">>

\* the roof and floor faces and normals of the built mesh
C8_Final ==
  Built =>
    \A k \in 0..(S - 1) :
      LET next == (k + 1) % S
          nr   == S + k + 1
          nf   == 2 * S + k + 1
      IN  /\ f[2 * S + k + 1] =
               <<"f", <<2 * S + 2, nr>>, <<S + 1 + next, nr>>, <<S + 1 + k, nr>>>>
          /\ vn[nr] = <<"vn", Zero4, One4, Zero4>>
          /\ f[3 * S + k + 1] =
               <<"f", <<2 * S + 1, nf>>, <<1 + k, nf>>, <<1 + next, nf>>>>
          /\ vn[nf] = <<"vn", Zero4, MinusOne4, Zero4>>

\* a step keeps the normals already appended, and a roof or floor step
\* appends one normal and one face that references it
C8_Step ==
  /\ Len(vn') >= Len(vn)
  /\ \A k \in 1..Len(vn) : vn'[k] = vn[k]
  /\ (pc \in {"roof", "floor"} /\ Len(f') # Len(f)) =>
       /\ Len(vn') = Len(vn) + 1
       /\ Len(f') = Len(f) + 1
       /\ FaceNormals(f'[Len(f')]) = <<Len(vn'), Len(vn'), Len(vn')>>

\* C8: position 2*sides+k holds the roof triangle (top-center, top[next],
\* top[k]) with normal index sides+k+1 whose entry is (0,1,0); position
\* 3*sides+k holds the floor triangle (bottom-center, bottom[k],
\* bottom[next]) with normal index 2*sides+k+1 whose entry is (0,-1,0);
\* each roof or floor face references the normal appended just before it
\* and appended normals never change.
C8_RoofFloor == [](C8_Final) /\ [][C8_Step]_vars

C8_Witness ==
  /\ pc = "done"
  /\ S = 5
  /\ f[4 * S] = <<"f", <<2 * S + 1, 3 * S>>, <<S, 3 * S>>, <<1, 3 * S>>>>
  /\ f[3 * S] = <<"f", <<2 * S + 2, 2 * S>>, <<S + 1, 2 * S>>, <<2 * S, 2 * S>>>>

\* the directed edges of a face
Edges(face) ==
  LET p == FaceVerts(face)
  IN  {<<p[1], p[2]>>, <<p[2], p[3]>>, <<p[3], p[1]>>}

\* the directed edges of all faces
AllEdges == UNION {Edges(f[k]) : k \in 1..Len(f)}

\* C10: the triangles form a closed, consistently oriented surface: every
\* directed edge of a face occurs in exactly one face and so does its
\* reverse, and every one of the 2*sides+2 vertices is used by a face.
\* (Each face has three distinct directed edges and the faces together have
\* three times as many, so no directed edge lies in two faces.)
C10_ClosedSurface ==
  Built =>
    LET E == AllEdges
    IN  /\ \A k \in 1..Len(f) : Cardinality(Edges(f[k])) = 3
        /\ Cardinality(E) = 3 * Len(f)
        /\ \A e \in E : <<e[2], e[1]>> \in E
        /\ \A p \in 1..(2 * S + 2) : \E e \in E : e[1] = p

C10_Witness ==
  /\ Built
  /\ S = 3
  /\ Cardinality(AllEdges) = 36
  /\ <<1, 4>> \in AllEdges /\ <<4, 1>> \in AllEdges

\* s is an optional sign followed by digits only
IsIntegerLiteral(s) ==
  LET sp == SignSplit(s)
  IN  sp[2] # <<>> /\ DigitRun(sp[2]) = sp[2]

\* the value of an integer literal
IntegerValue(s) == SignSplit(s)[1] * DigitsVal(SignSplit(s)[2], 0)

\* a sides argument is given and is not an integer of MinSides..MaxSides
SidesArgBad(a) ==
  /\ Truthy(a, 0)
  /\ \/ ~IsIntegerLiteral(a[1])
     \/ IntegerValue(a[1]) \notin MinSides..MaxSides

\* main returned after reporting the invalid parameters, without a write
Rejected ==
  /\ pc = "exit"
  /\ stderr = <<<<ErrorMessage>>>>
  /\ v = <<>> /\ vn = <<>> /\ f = <<>> /\ vReorganized = <<>>
  /\ writes = <<>>
  /\ disk = {}

\* C3: when the sides argument is outside 3..36 or is not a valid integer
\* (2, 37, 3.5), main reports the invalid parameters, generates nothing and
\* never calls fs.writeFile.
C3_BadSidesRejected ==
  (SidesArgBad(args) /\ pc \notin {"parse", "validate"}) => Rejected

\* one of the h, r1, r2 arguments is given and is <= 0 or parses to NaN
DimArgBad(a) ==
  \E k \in 1..3 :
    /\ Truthy(a, k)
    /\ \/ parseFloat(a[k + 1]).nan
       \/ LeqZero(parseFloat(a[k + 1]))

\* C4: when one of the h, r1, r2 arguments is <= 0 or non-numeric, main
\* reports the invalid parameters, aborts and never calls fs.writeFile.
C4_BadDimsRejected ==
  (DimArgBad(args) /\ pc \notin {"parse", "validate"}) => Rejected

\* what holds of the write in every state
C9_State ==
  /\ Len(writes) <= 1
  /\ writes # <<>> =>
       /\ pc \in {"pending", "done"}
       /\ Len(vReorganized) = 2 * S + 2 /\ Len(vn) = 3 * S /\ Len(f) = 4 * S
       /\ writes[1].data = <<writes[1].data[1]>> \o vReorganized \o vn \o f
  /\ pc = "pending" => (Len(writes) = 1 /\ stderr = <<>> /\ stdout = <<>>)
  /\ pc = "done" =>
       /\ Len(writes) = 1
       /\ \/ (stderr = <<WriteError>> /\ stdout = <<>> /\ disk = {})
          \/ /\ stderr = <<>>
             /\ stdout = <<<<"Wrote", writes[1].file>>>>
             /\ disk = {writes[1].file}

\* nothing runs once the callback has run: no retry, no second report
C9_Step == pc # "done"

\* C9: an accepted run calls fs.writeFile exactly once, after the whole mesh
\* is built; the callback eventually runs, once, and reports either the
\* error or 'Wrote <file>', never both and never neither; a failed write is
\* not retried and the run ends.
C9_WriteOnce ==
  /\ [](C9_State)
  /\ [][C9_Step]_vars
  /\ (Accepted ~> (pc = "done"))

\* a run whose write failed
C9_Witness ==
  /\ pc = "done"
  /\ Len(writes) = 1
  /\ stderr = <<WriteError>>
  /\ stdout = <<>>
  /\ disk = {}
  /\ Len(f) = 4 * S
=============================================================================
